---- MODULE Spec2Model ----
(***************************************************************************)
(* pdf-simple: the page-rendering session (PdfDocumentImpl, PDFium         *)
(* backend), its page selector, its renderPages async generator and the    *)
(* convenience functions renderPdfPages / getPageCount of index.ts.        *)
(***************************************************************************)
EXTENDS Integers, Sequences, FiniteSets, TLC

(* ------------------------------ bounds --------------------------------- *)

\* largest page count of a modelled document
MaxPages == 2

\* longest explicit `pages` list a caller passes
MaxLen == 3

\* how many times a caller calls close() / Symbol.asyncDispose on a session
MaxCloses == 2

\* longest explicit `pages` list handed to renderPages on a session
MaxGenLen == 2

(* ------------------------- JavaScript numbers -------------------------- *)

\* an integer n
Num(n) == [k |-> "int", n |-> n]

\* the non-integer n + 0.5
Frac(n) == [k |-> "frac", n |-> n]

\* not-a-number
NaN == [k |-> "nan", n |-> 0]

\* the JavaScript value undefined (an option that was not given)
Undefined == [k |-> "undef", n |-> 0]

\* twice the numeric value of a number that is not NaN
Twice(a) == 2 * a.n + (IF a.k = "frac" THEN 1 ELSE 0)

\* a < b as JavaScript evaluates it: false when either side is NaN
JsLt(a, b) == a.k # "nan" /\ b.k # "nan" /\ Twice(a) < Twice(b)

\* a > b as JavaScript evaluates it
JsGt(a, b) == JsLt(b, a)

\* a ?? d
Coalesce(a, d) == IF a.k = "undef" THEN d ELSE a

(* --------------------------- page selections --------------------------- *)

\* RenderOptions.pages: undefined, number[] or PageRange
PagesAbsent == [kind |-> "absent", list |-> << >>, start |-> Undefined, end |-> Undefined]

PagesList(l) == [kind |-> "list", list |-> l, start |-> Undefined, end |-> Undefined]

PagesRange(s, e) == [kind |-> "range", list |-> << >>, start |-> s, end |-> e]

\* the numbers a caller puts in a list: integers around the document's range,
\* one non-integer and NaN
Numbers == {Num(i) : i \in 0..(MaxPages + 1)} \cup {Frac(1), NaN}

RangeEnds == {Num(i) : i \in 0..(MaxPages + 1)} \cup {Undefined}

Lists == UNION {[1..m -> Numbers] : m \in 0..MaxLen}

Selections ==
    {PagesAbsent} \cup {PagesList(l) : l \in Lists}
        \cup {PagesRange(s, e) : s \in RangeEnds, e \in RangeEnds}

\* the selections handed to renderPages on a session: lists of the first two
\* pages, the page after the largest document and NaN; ranges that start at
\* the first pages and end at the last page or after it
GenNumbers == {Num(1), Num(2), Num(MaxPages + 1), NaN}

GenSelections ==
    {PagesAbsent}
        \cup {PagesList(l) : l \in UNION {[1..m -> GenNumbers] : m \in 0..MaxGenLen}}
        \cup {PagesRange(s, e) : s \in {Undefined, Num(1), Num(2)},
                                 e \in {Undefined, Num(MaxPages), Num(MaxPages + 1)}}

(* ------------------------------ PdfError ------------------------------- *)

PdfErrorCodes ==
    {"INVALID_INPUT", "FILE_NOT_FOUND", "INVALID_PDF", "PASSWORD_REQUIRED",
     "INVALID_PASSWORD", "INVALID_PAGE_NUMBER", "RENDER_FAILED",
     "DOCUMENT_CLOSED", "UNKNOWN"}

\* result of the page selector: the page numbers, or the PdfError it throws
\* (ref: the value interpolated in the message, n: the page count in it)
Resolved(l) == [ok |-> TRUE, pages |-> l, code |-> "OK", ref |-> Num(0), n |-> 0]

InvalidPage(p, n) ==
    [ok |-> FALSE, pages |-> << >>, code |-> "INVALID_PAGE_NUMBER", ref |-> p, n |-> n]

\* OutOfRange with the upper comparison written p >= this.pageCount
OutOfRangeOffByOne(p, n) == JsLt(p, Num(1)) \/ ~JsLt(p, Num(n))

\* OutOfRange with the lower comparison left out
OutOfRangeNoLowerBound(p, n) == JsGt(p, Num(n))

\* p < 1 || p > this.pageCount
OutOfRange(p, n) == JsLt(p, Num(1)) \/ JsGt(p, Num(n))

\* index of the first element the validation loop rejects, 0 when none
RECURSIVE FirstRejected(_, _, _)
FirstRejected(l, n, i) ==
    IF i > Len(l) THEN 0
    ELSE IF OutOfRange(l[i], n) THEN i
    ELSE FirstRejected(l, n, i + 1)

\* ArrayFrom with the index taken as the page number (pages counted from 0)
ArrayFromZeroBased(len, first) ==
    [i \in 1..(IF len > 0 THEN len ELSE 0) |-> Num(first + i - 2)]

\* Array.from({ length: len }, (_, i) => first + i)
ArrayFrom(len, first) == [i \in 1..(IF len > 0 THEN len ELSE 0) |-> Num(first + i - 1)]

\* resolvePageNumbers with a range clamped to the document instead of rejected
resolvePageNumbersClamping(pages, n) ==
    IF pages.kind = "absent" THEN Resolved(ArrayFrom(n, 1))
    ELSE IF pages.kind = "list" THEN
        LET i == FirstRejected(pages.list, n, 1) IN
        IF i # 0 THEN InvalidPage(pages.list[i], n) ELSE Resolved(pages.list)
    ELSE
        LET given == Coalesce(pages.start, Num(1))
            start == IF JsLt(given, Num(1)) THEN Num(1) ELSE given
            given_end == Coalesce(pages.end, Num(n))
            end == IF JsGt(given_end, Num(n)) THEN Num(n) ELSE given_end
        IN  IF JsGt(start, Num(n)) THEN InvalidPage(start, n)
            ELSE IF JsLt(end, start) THEN InvalidPage(end, n)
            ELSE Resolved(ArrayFrom(end.n - start.n + 1, start.n))

\* PdfDocumentImpl.resolvePageNumbers with this.pageCount = n
resolvePageNumbers(pages, n) ==
    IF pages.kind = "absent" THEN Resolved(ArrayFrom(n, 1))
    ELSE IF pages.kind = "list" THEN
        LET i == FirstRejected(pages.list, n, 1) IN
        IF i # 0 THEN InvalidPage(pages.list[i], n) ELSE Resolved(pages.list)
    ELSE
        LET start == Coalesce(pages.start, Num(1))
            end == Coalesce(pages.end, Num(n))
        IN  IF JsLt(start, Num(1)) \/ JsGt(start, Num(n)) THEN InvalidPage(start, n)
            ELSE IF JsLt(end, start) \/ JsGt(end, Num(n)) THEN InvalidPage(end, n)
            ELSE Resolved(ArrayFrom(end.n - start.n + 1, start.n))

(* ---------------------------- opening a PDF ---------------------------- *)

\* words wrapPdfiumError looks for in the lower-cased engine message
Tokens == {"invalid", "not a pdf", "format", "password", "incorrect", "wrong"}

\* the same words as an engine may spell them at the start of a sentence
Capitalised(token) ==
    CASE token = "invalid" -> "Invalid"
      [] token = "not a pdf" -> "Not a PDF"
      [] token = "format" -> "Format"
      [] token = "password" -> "Password"
      [] token = "incorrect" -> "Incorrect"
      [] token = "wrong" -> "Wrong"

\* the spellings an engine failure text is made of
Words == Tokens \cup {Capitalised(t) : t \in Tokens}

\* an engine failure text, as the set of those spellings that occur in it
Messages == SUBSET Words

\* String.prototype.toLowerCase on one spelling
LowerCased(w) == IF w \in Tokens THEN w ELSE CHOOSE t \in Tokens : Capitalised(t) = w

\* message.toLowerCase()
toLowerCase(m) == {LowerCased(w) : w \in m}

\* lowerMessage.includes(token)
includes(lowerMessage, token) == token \in lowerMessage

\* the PdfError wrapPdfiumError returns: its code and its cause
Wrapped(code, error) == [code |-> code, cause |-> error]

\* wrapPdfiumError looking for its words in the message as it is spelled
wrapPdfiumErrorCaseSensitive(m) ==
    IF includes(m, "invalid") \/ includes(m, "not a pdf") \/ includes(m, "format")
    THEN Wrapped("INVALID_PDF", m)
    ELSE IF includes(m, "password") THEN
        IF includes(m, "incorrect") \/ includes(m, "wrong")
        THEN Wrapped("INVALID_PASSWORD", m)
        ELSE Wrapped("PASSWORD_REQUIRED", m)
    ELSE Wrapped("UNKNOWN", m)

\* wrapPdfiumError for an engine failure that is not a PdfError: the
\* structural words are looked for first, then the password words
wrapPdfiumError(m) ==
    LET lowerMessage == toLowerCase(m) IN
    IF \/ includes(lowerMessage, "invalid")
       \/ includes(lowerMessage, "not a pdf")
       \/ includes(lowerMessage, "format")
    THEN Wrapped("INVALID_PDF", m)
    ELSE IF includes(lowerMessage, "password") THEN
        IF includes(lowerMessage, "incorrect") \/ includes(lowerMessage, "wrong")
        THEN Wrapped("INVALID_PASSWORD", m)
        ELSE Wrapped("PASSWORD_REQUIRED", m)
    ELSE Wrapped("UNKNOWN", m)

\* what a caller hands to openPdf: the shape of the input, what fs.readFile
\* does for a path, and what the engine does with the bytes
InputShapes == {"string", "Buffer", "Uint8Array", "ArrayBuffer", "other"}

ReadOutcomes == {"read", "ENOENT", "EACCES"}

\* fs.readFile is called for a string input only
ReadsOf(shape) == IF shape = "string" THEN ReadOutcomes ELSE {"read"}

\* resolveInput without the final throw for an unsupported input
resolveInputNoTypeCheck(shape, read) ==
    IF shape = "string" THEN
        IF read = "read" THEN "OK"
        ELSE IF read = "ENOENT" THEN "FILE_NOT_FOUND"
        ELSE "INVALID_INPUT"
    ELSE "OK"

\* resolveInput: "OK" when it returns bytes, else the PdfError code
resolveInput(shape, read) ==
    IF shape = "string" THEN
        IF read = "read" THEN "OK"
        ELSE IF read = "ENOENT" THEN "FILE_NOT_FOUND"
        ELSE "INVALID_INPUT"
    ELSE IF shape \in {"Buffer", "Uint8Array", "ArrayBuffer"} THEN "OK"
    ELSE "INVALID_INPUT"

\* the failure texts the engine answers with when a session is opened: one
\* for each way wrapPdfiumError classifies a text
EngineTexts == {{}, {"invalid"}, {"password"}, {"password", "wrong"}}

\* the engine's answer to loadDocument: a document of some page count, or a
\* failure text
EngineAnswers ==
    {[ok |-> TRUE, numPages |-> n, msg |-> {}] : n \in 0..MaxPages}
        \cup {[ok |-> FALSE, numPages |-> 0, msg |-> m] : m \in EngineTexts}

\* what PDFiumLibrary.init() does when getLibrary calls it
InitOutcomes == {"ready", "fails"}

\* PDFiumLibrary.init() is called while libraryInstance is null only
InitsOf(lib) == IF lib THEN {"ready"} ELSE InitOutcomes

\* an exception that is not a PdfError, as the code of a result
RawError == "RAW_ERROR"

\* getLibrary with libraryInstance set (lib) or null: the cached instance, or
\* the outcome of PDFiumLibrary.init(), whose rejection is thrown as it is
getLibrary(lib, init) ==
    IF lib \/ init = "ready" THEN [code |-> "OK", lib |-> TRUE]
    ELSE [code |-> RawError, lib |-> FALSE]

\* PdfDocumentImpl.open: code "OK" when a session is constructed, else the
\* code of what it throws; lib: libraryInstance afterwards; parsed: whether
\* library.loadDocument was called
open(shape, read, lib, init, engine) ==
    LET r == resolveInput(shape, read)
        g == getLibrary(lib, init)
    IN  IF r # "OK" THEN [code |-> r, lib |-> lib, parsed |-> FALSE]
        ELSE IF g.code # "OK" THEN [code |-> g.code, lib |-> g.lib, parsed |-> FALSE]
        ELSE [code |-> IF engine.ok THEN "OK" ELSE wrapPdfiumError(engine.msg).code,
              lib |-> g.lib, parsed |-> TRUE]

(* --------------------------- rendered pages ---------------------------- *)

\* the documents of the model, named by their bytes, and their page counts
Bytes == {"A", "B"}

PagesOf(bytes) == IF bytes = "A" THEN 1 ELSE MaxPages

\* library.loadDocument on well-formed bytes
loadDocument(bytes) == [ok |-> TRUE, numPages |-> PagesOf(bytes), msg |-> {}]

\* RenderOptions without `pages`: no option given, a PNG at scale 1.0, a
\* JPEG of quality 0.5
NoOptions == [scale |-> "undefined", format |-> "undefined", quality |-> "undefined"]

RenderOptions ==
    {NoOptions,
     [scale |-> "1.0", format |-> "png", quality |-> "undefined"],
     [scale |-> "undefined", format |-> "undefined", quality |-> "0.5"]}

DEFAULT_RENDER_OPTIONS == [scale |-> "1.5", format |-> "jpeg", quality |-> "0.85"]

\* option ?? DEFAULT_RENDER_OPTIONS.option
OptionOr(option, default) == IF option = "undefined" THEN default ELSE option

\* Math.round(quality * 100)
QualityPercent(quality) == IF quality = "0.5" THEN 50 ELSE 85

\* this.document.getPage(index) followed by page.render({ render: 'bitmap',
\* scale }): the adapter is deterministic, its bitmap is named by what it
\* was asked for
pageRender(bytes, index, scale) == [bytes |-> bytes, index |-> index, scale |-> scale]

\* sharp(..).jpeg({ quality }).toBuffer() and sharp(..).png().toBuffer():
\* the encoder is deterministic, PNG takes no quality
encode(image, format, quality) ==
    [image |-> image, format |-> format,
     quality |-> IF format = "jpeg" THEN QualityPercent(quality) ELSE 0]

\* the object renderPageInternal returns for page p of a document of n pages
RenderedPage(bytes, n, p, options) ==
    LET scale == OptionOr(options.scale, DEFAULT_RENDER_OPTIONS.scale)
        format == OptionOr(options.format, DEFAULT_RENDER_OPTIONS.format)
        quality == OptionOr(options.quality, DEFAULT_RENDER_OPTIONS.quality)
        image == pageRender(bytes, p.n - 1, scale)
    IN  [pageNumber |-> p, totalPages |-> n,
         buffer |-> encode(image, format, quality),
         width |-> <<"width", image>>, height |-> <<"height", image>>]

\* no page rendered
NoPage == RenderedPage("none", 0, Num(0), DEFAULT_RENDER_OPTIONS)

\* no renderPage request made on the session: the state of the request
\* ("none", "pending", "done", "failed"), its page and options, the page it
\* returned, and whether the session had returned a page before
NoRequest ==
    [state |-> "none", page |-> Num(0), options |-> NoOptions,
     out |-> NoPage, after |-> FALSE]

(* ------------------------------- state --------------------------------- *)

\* the session objects of the model: two the caller opens with openPdf, the
\* one renderPdfPages opens for itself and the one getPageCount opens
SessionIds == {"s1", "s2", "rpp", "gpc"}

VARIABLES
    exists,     \* [s]: the PdfDocumentImpl has been constructed
    numPages,   \* [s]: what this.document.getPageCount() reports
    closed,     \* [s]: PdfDocumentImpl.closed
    destroyCount, \* [s]: calls of this.document.destroy()
    closeCalls, \* [s]: calls of close(), Symbol.asyncDispose included
    usedAfterDestroy, \* [s]: the engine handle was used after destroy()
    libraryInstance, \* the module's libraryInstance is set (not null)
    parsed,     \* [s]: library.loadDocument was called to open the session
    call,       \* [s]: the renderPage call in flight
    gen,        \* [s]: the renderPages generator object of the session
    last,       \* the result most recently delivered to the caller
    rpp,        \* the renderPdfPages generator object and its consumer
    gpc,        \* the getPageCount call
    selPages,   \* page selector alone: the `pages` argument
    selN,       \* page selector alone: the page count
    selOut,     \* page selector alone: what resolvePageNumbers returned or threw
    wrapMsg,    \* wrapPdfiumError alone: the engine failure text
    wrapOut,    \* wrapPdfiumError alone: the PdfError it returned
    document,   \* [s]: the bytes behind this.document ("none" before the open)
    rendered,   \* [s]: the renderPage request of the session and its RenderedPage
    consoleLog, \* pdf.js backend: the function the global console.log refers to
    warningCapture, \* pdf.js backend, [s]: the FontWarningCapture of the session
    throwOnFontError, \* pdf.js backend, [s]: PdfDocumentImpl.throwOnFontError
    fontRender, \* pdf.js backend, [s]: the renderPageInternal call of the session
    pageObjects, \* PDFium backend, [s]: the renderPageInternal call and its page objects
    initCalls,  \* calls of PDFiumLibrary.init() so far
    cachedLibrary, \* the instance in libraryInstance: the init() call it came from, 0 for null
    opening     \* [s]: PdfDocumentImpl.open of the session, step by step

engineVars == <<libraryInstance, parsed>>

sessionVars ==
    <<exists, numPages, closed, destroyCount, closeCalls,
      usedAfterDestroy, libraryInstance, parsed, call, gen, last>>

selVars == <<selPages, selN, selOut>>

wrapVars == <<wrapMsg, wrapOut>>

detVars == <<document, rendered>>

fontVars == <<consoleLog, warningCapture, throwOnFontError, fontRender>>

pageVars == <<pageObjects>>

libVars == <<initCalls, cachedLibrary, opening>>

\* the variables of the specifications that follow one mechanism alone
otherVars == <<fontVars, pageVars, libVars>>

convVars == <<rpp, gpc>>

vars == <<exists, numPages, closed, destroyCount, closeCalls,
          usedAfterDestroy, libraryInstance, parsed, call, gen, last, rpp, gpc,
          selPages, selN, selOut, wrapMsg, wrapOut, document, rendered,
          consoleLog, warningCapture, throwOnFontError, fontRender,
          pageObjects, initCalls, cachedLibrary, opening>>

\* wrapPdfiumError not yet called
NotWrapped == Wrapped("NOT_RUN", {})

NotRun == [ok |-> FALSE, pages |-> << >>, code |-> "NOT_RUN", ref |-> Num(0), n |-> 0]

\* no renderPage call in flight
NoCall == [active |-> FALSE, page |-> Num(0), callClosed |-> FALSE]

\* the page number and the cause of the RENDER_FAILED a step threw, if any
NoFailure == [page |-> Num(0), cause |-> "none"]

\* no generator object. advances: the next() calls the consumer has made on
\* the unfinished generator; started: the renderPageInternal calls the body
\* has made
GenNone ==
    [state |-> "none", pages |-> PagesAbsent, pageNumbers |-> << >>, idx |-> 0,
     bornClosed |-> FALSE, delivered |-> << >>, code |-> "OK",
     advances |-> 0, started |-> 0]

\* a result delivered to the caller: the operation, the session, "OK", "DONE"
\* or the error code, the page count returned (by pageCount and getPageCount)
\* or the page number in the message of the error (rendered pages are kept in
\* the generator's `delivered`), whether the session was closed when the call
\* was made, and the `cause` of the error ("none" when it has none)
Result(op, s, code, page, wasClosed) ==
    [op |-> op, s |-> s, code |-> code, page |-> page, callClosed |-> wasClosed,
     cause |-> "none"]

\* the result of a call that ends with what renderPageInternal returned or
\* threw (r): a page, or the PdfError with its page number and cause
Delivered(op, s, r, wasClosed) ==
    [Result(op, s, r.code, IF r.code = "OK" THEN Num(0) ELSE r.page, wasClosed)
        EXCEPT !.cause = r.cause]

NoResult == Result("none", "s1", "OK", Num(0), FALSE)

\* renderPdfPages not called: the state of the generator object, the
\* options.pages it was called with, the completion held back while the
\* finally block runs, the completion delivered, and what the consumer does
\* ("iterating", "returned" after return(), "dropped" after letting go of
\* the generator without return()), and the page and cause of a RENDER_FAILED
\* held back
RppNone ==
    [state |-> "none", pages |-> PagesAbsent, pending |-> "OK", code |-> "OK",
     consumer |-> "iterating", failure |-> NoFailure]

\* getPageCount not called: the state of the call and the value or error
\* held back while the finally block runs
GpcNone == [state |-> "none", pending |-> [code |-> "OK", page |-> Num(0)]]

\* new FontWarningCapture(): warnings (their number), originalConsoleLog
\* (declared without a value) and isCapturing
NoCapture == [warnings |-> 0, originalConsoleLog |-> "undefined", isCapturing |-> FALSE]

\* pdf.js backend, no session object yet. state: "unopened", "idle",
\* "loading" (awaiting document.getPage), "rendering" (awaiting
\* page.render), "returned", "failed"; own: the engine emitted a font
\* diagnostic while rendering this session's page in this call; heard: some
\* font diagnostic was emitted during this call; page: the local `page`
\* is set; obtained, cleanups: page objects obtained and page.cleanup()
\* calls in this call; code: how the last call ended
NoFontRender ==
    [state |-> "unopened", own |-> FALSE, heard |-> FALSE, page |-> FALSE,
     obtained |-> 0, cleanups |-> 0, code |-> "none"]

\* PDFium backend, renderPageInternal not called. state: "idle", "rendering"
\* (awaiting page.render), "encoding" (awaiting sharp), "returned",
\* "failed"; obtained: page objects document.getPage returned in this call;
\* cleanups: releases of them the session invoked in this call; held: page
\* objects obtained since the open that were not released
NoPageRender ==
    [state |-> "idle", page |-> 0, obtained |-> 0, cleanups |-> 0, held |-> 0]

\* open not called: pc "idle", "init" (awaiting PDFiumLibrary.init()),
\* "load" (library in hand, loadDocument next), "opened", "failed";
\* library: the init() call whose instance the session uses, 0 for none
NotOpening == [pc |-> "idle", library |-> 0]

SessionInit ==
    /\ exists = [s \in SessionIds |-> FALSE]
    /\ numPages = [s \in SessionIds |-> 0]
    /\ closed = [s \in SessionIds |-> FALSE]
    /\ destroyCount = [s \in SessionIds |-> 0]
    /\ closeCalls = [s \in SessionIds |-> 0]
    /\ usedAfterDestroy = [s \in SessionIds |-> FALSE]
    /\ libraryInstance = FALSE
    /\ parsed = [s \in SessionIds |-> FALSE]
    /\ call = [s \in SessionIds |-> NoCall]
    /\ gen = [s \in SessionIds |-> GenNone]
    /\ last = NoResult
    /\ rpp = RppNone
    /\ gpc = GpcNone
    /\ document = [s \in SessionIds |-> "none"]
    /\ rendered = [s \in SessionIds |-> NoRequest]
    /\ consoleLog = "log"
    /\ warningCapture = [s \in SessionIds |-> NoCapture]
    /\ throwOnFontError = [s \in SessionIds |-> FALSE]
    /\ fontRender = [s \in SessionIds |-> NoFontRender]
    /\ pageObjects = [s \in SessionIds |-> NoPageRender]
    /\ initCalls = 0
    /\ cachedLibrary = 0
    /\ opening = [s \in SessionIds |-> NotOpening]

(* ------------------------- PdfDocumentImpl ----------------------------- *)

\* ensureOpen with the test of the closed flag left out
ensureOpenNoCheck(isClosed) == FALSE

\* PdfDocumentImpl.ensureOpen on a session whose closed flag is isClosed:
\* TRUE when it throws DOCUMENT_CLOSED
ensureOpen(isClosed) == isClosed

\* the pageCount getter on a session with that flag and an engine document
\* of n pages: the code it throws, or "OK" with the count
pageCount(isClosed, n) ==
    IF ensureOpen(isClosed) THEN [code |-> "DOCUMENT_CLOSED", page |-> Num(0)]
    ELSE [code |-> "OK", page |-> Num(n)]

\* close() whose early return for a closed session is missing
closeUnguarded(s) ==
    /\ closed' = [closed EXCEPT ![s] = TRUE]
    /\ destroyCount' = [destroyCount EXCEPT ![s] = @ + 1]
    /\ closeCalls' = [closeCalls EXCEPT ![s] = @ + 1]

\* PdfDocumentImpl.close: returns at once when closed, else sets the flag
\* and destroys the engine document
close(s) ==
    /\ closed' = [closed EXCEPT ![s] = TRUE]
    /\ destroyCount' = [destroyCount EXCEPT ![s] = IF closed[s] THEN @ ELSE @ + 1]
    /\ closeCalls' = [closeCalls EXCEPT ![s] = @ + 1]

\* renderPageInternal up to its first await: this.document.getPage(p - 1) and
\* page.render(..) are called on the engine handle, destroyed or not
startRender(s) ==
    usedAfterDestroy' = [usedAfterDestroy EXCEPT ![s] = @ \/ destroyCount[s] > 0]

\* what the adapters do during one render: both succeed ("none"), the
\* engine's page.render rejects, or sharp's toBuffer rejects; the exception is
\* named by the adapter that raised it
Failures == {"none", "engine", "encoder"}

\* new PdfError(`Failed to render page ${pageNumber}: ..`, 'RENDER_FAILED', error)
RenderFailed(p, error) == [code |-> "RENDER_FAILED", page |-> p, cause |-> error]

\* renderPageInternal whose catch block builds the PdfError without the cause
renderPageInternalNoCause(isClosed, n, p, fails) ==
    IF fails # "none" THEN RenderFailed(p, "none")
    ELSE IF pageCount(isClosed, n).code # "OK" THEN RenderFailed(p, "none")
    ELSE [code |-> "OK", page |-> p, cause |-> "none"]

\* renderPageInternal from the resumption to its return or throw: an engine
\* or encoder failure, and the DOCUMENT_CLOSED that reading this.pageCount
\* for totalPages throws, are caught and rethrown as RENDER_FAILED
renderPageInternal(isClosed, n, p, fails) ==
    IF fails # "none" THEN RenderFailed(p, fails)
    ELSE IF pageCount(isClosed, n).code # "OK"
    THEN RenderFailed(p, pageCount(isClosed, n).code)
    ELSE [code |-> "OK", page |-> p, cause |-> "none"]

\* openPdf / PdfDocumentImpl.open on a session object not yet constructed
OpenPdf(s, shape, read, init, engine) ==
    /\ ~exists[s]
    /\ LET r == open(shape, read, libraryInstance, init, engine) IN
        /\ exists' = [exists EXCEPT ![s] = (r.code = "OK")]
        /\ numPages' = [numPages EXCEPT ![s] = IF r.code = "OK" THEN engine.numPages ELSE 0]
        /\ libraryInstance' = r.lib
        /\ parsed' = [parsed EXCEPT ![s] = @ \/ r.parsed]
        /\ last' = Result("openPdf", s, r.code, Num(0), FALSE)
    /\ UNCHANGED <<closed, destroyCount, closeCalls, usedAfterDestroy, call, gen>>

\* a read of the pageCount property
PageCount(s) ==
    /\ exists[s]
    /\ LET r == pageCount(closed[s], numPages[s]) IN
        last' = Result("pageCount", s, r.code, r.page, closed[s])
    /\ UNCHANGED <<exists, numPages, closed, destroyCount, closeCalls,
                   usedAfterDestroy, call, gen>>
    /\ UNCHANGED engineVars

\* renderPage(p) up to the await inside renderPageInternal (the caller runs
\* one render at a time on a session)
RenderPage(s, p) ==
    /\ exists[s]
    /\ ~call[s].active
    /\ gen[s].state # "executing"
    /\ IF ensureOpen(closed[s]) THEN
            /\ last' = Result("renderPage", s, "DOCUMENT_CLOSED", Num(0), closed[s])
            /\ UNCHANGED <<call, usedAfterDestroy>>
       ELSE IF OutOfRange(p, pageCount(closed[s], numPages[s]).page.n) THEN
            /\ last' = Result("renderPage", s, "INVALID_PAGE_NUMBER", p, closed[s])
            /\ UNCHANGED <<call, usedAfterDestroy>>
       ELSE
            /\ call' = [call EXCEPT ![s] =
                        [active |-> TRUE, page |-> p, callClosed |-> closed[s]]]
            /\ startRender(s)
            /\ UNCHANGED last
    /\ UNCHANGED <<exists, numPages, closed, destroyCount, closeCalls, gen>>
    /\ UNCHANGED engineVars

\* the render of a renderPage call settles and the call returns or throws
RenderPageDone(s, fails) ==
    /\ call[s].active
    /\ LET r == renderPageInternal(closed[s], numPages[s], call[s].page, fails) IN
        last' = Delivered("renderPage", s, r, call[s].callClosed)
    /\ call' = [call EXCEPT ![s] = NoCall]
    /\ UNCHANGED <<exists, numPages, closed, destroyCount, closeCalls,
                   usedAfterDestroy, gen>>
    /\ UNCHANGED engineVars

\* a call of close()
Close(s) ==
    /\ exists[s]
    /\ closeCalls[s] < MaxCloses
    /\ close(s)
    /\ last' = Result("close", s, "OK", Num(0), closed[s])
    /\ UNCHANGED <<exists, numPages, usedAfterDestroy, call, gen>>
    /\ UNCHANGED engineVars

\* [Symbol.asyncDispose] destroying the engine document itself
asyncDisposeUnguarded(s) == closeUnguarded(s)

\* PdfDocumentImpl[Symbol.asyncDispose]: await this.close()
asyncDispose(s) == close(s)

\* a call of [Symbol.asyncDispose](), made by `await using` when the scope
\* of the session is left, by its end or by an exception
AsyncDispose(s) ==
    /\ exists[s]
    /\ closeCalls[s] < MaxCloses
    /\ asyncDispose(s)
    /\ last' = Result("asyncDispose", s, "OK", Num(0), closed[s])
    /\ UNCHANGED <<exists, numPages, usedAfterDestroy, call, gen>>
    /\ UNCHANGED engineVars

(* ---------------- the renderPages async generator object --------------- *)

\* the generator object renderPages(options) returns: no statement of the
\* body has run yet
NewGenerator(pages, isClosed) ==
    [GenNone EXCEPT !.state = "suspendedStart", !.pages = pages, !.bornClosed = isClosed]

\* the generator finishes: by exhaustion ("DONE"), by return() ("RETURNED")
\* or by throwing the error of the given code
Completed(g, code) == [g EXCEPT !.state = "completed", !.code = code]

\* what a step of the generator body comes to: the generator afterwards,
\* the code delivered to the consumer ("PENDING" while a render is awaited)
\* and whether the step called the engine to rasterize
Step(g, code, render) ==
    [gen |-> g, code |-> code, render |-> render, error |-> NoFailure]

\* the for..of test with the last page number left out
exhaustedOneEarly(g, i) == i >= Len(g.pageNumbers)

\* for (const pageNumber of pageNumbers): no i-th page number is left
exhausted(g, i) == i > Len(g.pageNumbers)

\* the loop of renderPages passing over a page number equal to the one before
genLoopSkippingRepeats(g, i) ==
    LET j == IF i > 1 /\ ~exhausted(g, i) /\ g.pageNumbers[i] = g.pageNumbers[i - 1]
             THEN i + 1 ELSE i
    IN  IF exhausted(g, j) THEN Step(Completed(g, "DONE"), "DONE", FALSE)
        ELSE Step([g EXCEPT !.state = "executing", !.idx = j, !.started = @ + 1],
                  "PENDING", TRUE)

\* the loop of renderPages from the top of iteration i: the generator is
\* exhausted, or calls renderPageInternal for its i-th page number
genLoop(g, i) ==
    IF exhausted(g, i) THEN Step(Completed(g, "DONE"), "DONE", FALSE)
    ELSE Step([g EXCEPT !.state = "executing", !.idx = i, !.started = @ + 1],
              "PENDING", TRUE)

\* the body of renderPages iterating an explicit list without validating it
genStartNoValidation(g, isClosed, n) ==
    IF ensureOpen(isClosed) THEN
        Step(Completed(g, "DOCUMENT_CLOSED"), "DOCUMENT_CLOSED", FALSE)
    ELSE
        LET r == resolvePageNumbers(g.pages, pageCount(isClosed, n).page.n) IN
        genLoop([g EXCEPT !.pageNumbers = IF r.ok THEN r.pages ELSE g.pages.list], 1)

\* the body of renderPages from its first statement: ensureOpen, then
\* resolvePageNumbers, then the loop
genStart(g, isClosed, n) ==
    IF ensureOpen(isClosed) THEN
        Step(Completed(g, "DOCUMENT_CLOSED"), "DOCUMENT_CLOSED", FALSE)
    ELSE
        LET r == resolvePageNumbers(g.pages, pageCount(isClosed, n).page.n) IN
        IF ~r.ok THEN Step(Completed(g, r.code), r.code, FALSE)
        ELSE genLoop([g EXCEPT !.pageNumbers = r.pages], 1)

\* next() on a generator that is not executing, up to the first await: the
\* body runs from where it is suspended; a finished generator answers done
genNext(g, isClosed, n) ==
    LET resumed == [g EXCEPT !.advances = @ + 1] IN
    IF g.state = "suspendedStart" THEN genStart(resumed, isClosed, n)
    ELSE IF g.state = "suspendedYield" THEN genLoop(resumed, g.idx + 1)
    ELSE Step(g, "DONE", FALSE)

\* genSettle going on to the next page number after a failed render
genSettleSkippingFailure(g, isClosed, n, fails) ==
    LET r == renderPageInternal(isClosed, n, g.pageNumbers[g.idx], fails) IN
    IF r.code = "OK"
    THEN Step([g EXCEPT !.state = "suspendedYield", !.delivered = Append(@, r.page)],
              "OK", FALSE)
    ELSE Step([g EXCEPT !.state = "suspendedYield"], "OK", FALSE)

\* genSettle starting the render of the page after the one it hands over
genSettlePrefetching(g, isClosed, n, fails) ==
    LET r == renderPageInternal(isClosed, n, g.pageNumbers[g.idx], fails) IN
    IF r.code = "OK"
    THEN Step([g EXCEPT !.state = "suspendedYield", !.delivered = Append(@, r.page),
                        !.started = IF exhausted(g, g.idx + 1) THEN @ ELSE @ + 1],
              "OK", FALSE)
    ELSE [Step(Completed(g, r.code), r.code, FALSE)
            EXCEPT !.error = [page |-> r.page, cause |-> r.cause]]

\* the render the generator awaits settles: `yield await` hands the page to
\* the consumer, or the error is thrown out of the generator as it is
genSettle(g, isClosed, n, fails) ==
    LET r == renderPageInternal(isClosed, n, g.pageNumbers[g.idx], fails) IN
    IF r.code = "OK"
    THEN Step([g EXCEPT !.state = "suspendedYield", !.delivered = Append(@, r.page)],
              "OK", FALSE)
    ELSE [Step(Completed(g, r.code), r.code, FALSE)
            EXCEPT !.error = [page |-> r.page, cause |-> r.cause]]

\* return() on a suspended generator (what leaving a for await loop early
\* does): renderPages has no finally block to run
genReturn(g) == Completed(g, "RETURNED")

\* renderPages(options): the call only constructs the generator object. A
\* generator writes no field of the session, so one generator per session
\* shows every state a session can be in.
RenderPages(s, pages) ==
    /\ exists[s]
    /\ gen[s].state = "none"
    /\ gen' = [gen EXCEPT ![s] = NewGenerator(pages, closed[s])]
    /\ UNCHANGED <<exists, numPages, closed, destroyCount, closeCalls,
                   usedAfterDestroy, call, last>>
    /\ UNCHANGED engineVars

\* the consumer calls next() on the generator (it waits for the previous
\* next() to settle first, as for await does)
GenNext(s) ==
    /\ gen[s].state \in {"suspendedStart", "suspendedYield", "completed"}
    /\ ~call[s].active
    /\ LET r == genNext(gen[s], closed[s], numPages[s]) IN
        /\ gen' = [gen EXCEPT ![s] = r.gen]
        /\ IF r.render THEN startRender(s) /\ UNCHANGED last
           ELSE /\ last' = Result("next", s, r.code, Num(0), gen[s].bornClosed)
                /\ UNCHANGED usedAfterDestroy
    /\ UNCHANGED <<exists, numPages, closed, destroyCount, closeCalls, call>>
    /\ UNCHANGED engineVars

\* the render the generator awaits settles
GenRenderDone(s, fails) ==
    /\ gen[s].state = "executing"
    /\ LET r == genSettle(gen[s], closed[s], numPages[s], fails) IN
        /\ gen' = [gen EXCEPT ![s] = r.gen]
        /\ last' = Delivered("next", s,
                              [code |-> r.code, page |-> r.error.page,
                               cause |-> r.error.cause],
                              gen[s].bornClosed)
    /\ UNCHANGED <<exists, numPages, closed, destroyCount, closeCalls,
                   usedAfterDestroy, call>>
    /\ UNCHANGED engineVars

\* the consumer calls return() on a suspended generator
GenReturn(s) ==
    /\ gen[s].state \in {"suspendedStart", "suspendedYield"}
    /\ gen' = [gen EXCEPT ![s] = genReturn(gen[s])]
    /\ last' = Result("return", s, "DONE", Num(0), gen[s].bornClosed)
    /\ UNCHANGED <<exists, numPages, closed, destroyCount, closeCalls,
                   usedAfterDestroy, call>>
    /\ UNCHANGED engineVars

(* --------------------- a caller driving one session -------------------- *)

Init ==
    /\ SessionInit
    /\ selPages = PagesAbsent
    /\ selN = 0
    /\ selOut = NotRun
    /\ wrapMsg = {}
    /\ wrapOut = NotWrapped

Next ==
    \/ \E shape \in InputShapes, engine \in EngineAnswers :
       \E read \in ReadsOf(shape), init \in InitsOf(libraryInstance) :
            OpenPdf("s1", shape, read, init, engine) /\ UNCHANGED <<selVars, wrapVars, detVars, otherVars, convVars>>
    \/ PageCount("s1") /\ UNCHANGED <<selVars, wrapVars, detVars, otherVars, convVars>>
    \/ \E p \in Numbers : RenderPage("s1", p) /\ UNCHANGED <<selVars, wrapVars, detVars, otherVars, convVars>>
    \/ \E fails \in Failures : RenderPageDone("s1", fails) /\ UNCHANGED <<selVars, wrapVars, detVars, otherVars, convVars>>
    \/ Close("s1") /\ UNCHANGED <<selVars, wrapVars, detVars, otherVars, convVars>>
    \/ AsyncDispose("s1") /\ UNCHANGED <<selVars, wrapVars, detVars, otherVars, convVars>>
    \/ \E pages \in GenSelections : RenderPages("s1", pages) /\ UNCHANGED <<selVars, wrapVars, detVars, otherVars, convVars>>
    \/ GenNext("s1") /\ UNCHANGED <<selVars, wrapVars, detVars, otherVars, convVars>>
    \/ \E fails \in Failures : GenRenderDone("s1", fails) /\ UNCHANGED <<selVars, wrapVars, detVars, otherVars, convVars>>
    \/ GenReturn("s1") /\ UNCHANGED <<selVars, wrapVars, detVars, otherVars, convVars>>

Spec == Init /\ [][Next]_vars

(* ------------- a caller that writes to the list it passed -------------- *)

\* the values a caller writes into its list, and the lists it passes: page
\* numbers of the document and the numbers on either side of it
MutNumbers == {Num(i) : i \in 0..(MaxPages + 1)}

MutSelections ==
    {PagesList(l) : l \in UNION {[1..m -> {Num(1), Num(2)}] : m \in 1..MaxGenLen}}

\* for an explicit list resolvePageNumbers returns `pages` itself, so the
\* array the loop of renderPages iterates is the caller's array
aliased(g) == g.pages.kind = "list"

\* the caller assigns v to element i of the array it passed as `pages`,
\* while the generator is suspended at a yield
CallerMutates(s, i, v) ==
    /\ gen[s].state = "suspendedYield"
    /\ aliased(gen[s])
    /\ i \in 1..Len(gen[s].pageNumbers)
    /\ gen[s].pageNumbers[i] # v
    /\ gen' = [gen EXCEPT ![s].pages.list[i] = v, ![s].pageNumbers[i] = v]
    /\ UNCHANGED <<exists, numPages, closed, destroyCount, closeCalls,
                   usedAfterDestroy, call, last>>
    /\ UNCHANGED engineVars

MutNext ==
    \/ \E shape \in InputShapes, engine \in EngineAnswers :
       \E read \in ReadsOf(shape), init \in InitsOf(libraryInstance) :
            OpenPdf("s1", shape, read, init, engine) /\ UNCHANGED <<selVars, wrapVars, detVars, otherVars, convVars>>
    \/ \E pages \in MutSelections : RenderPages("s1", pages) /\ UNCHANGED <<selVars, wrapVars, detVars, otherVars, convVars>>
    \/ GenNext("s1") /\ UNCHANGED <<selVars, wrapVars, detVars, otherVars, convVars>>
    \/ \E fails \in Failures : GenRenderDone("s1", fails) /\ UNCHANGED <<selVars, wrapVars, detVars, otherVars, convVars>>
    \/ \E i \in 1..MaxGenLen, v \in MutNumbers :
            CallerMutates("s1", i, v) /\ UNCHANGED <<selVars, wrapVars, detVars, otherVars, convVars>>
    \/ Close("s1") /\ UNCHANGED <<selVars, wrapVars, detVars, otherVars, convVars>>

MutSpec == Init /\ [][MutNext]_vars

\* C24: every page number a renderPages generator passes to
\* renderPageInternal, and so to the engine's getPage, lies in [1, pageCount],
\* also when the caller writes to the list it passed between two advances.
C24_AdapterPagesInRange ==
    \A s \in SessionIds :
        gen[s].state = "executing" =>
            /\ gen[s].pageNumbers[gen[s].idx].k \in {"int", "frac"}
            /\ 2 <= Twice(gen[s].pageNumbers[gen[s].idx])
            /\ Twice(gen[s].pageNumbers[gen[s].idx]) <= 2 * numPages[s]

(* ----------------- renderPdfPages and getPageCount --------------------- *)

\* the finally block of renderPdfPages with the close() left out
rppFinallyNoClose(s) == UNCHANGED <<closed, destroyCount, closeCalls>>

\* the finally block of renderPdfPages: await pdf.close()
rppFinally(s) == close(s)

\* the finally block of getPageCount with the close() left out
gpcFinallyNoClose(s) == UNCHANGED <<closed, destroyCount, closeCalls>>

\* the finally block of getPageCount: await pdf.close()
gpcFinally(s) == close(s)

\* renderPdfPages(input, options): the call only constructs the generator
RenderPdfPages(pages) ==
    /\ rpp.state = "none"
    /\ rpp' = [rpp EXCEPT !.state = "suspendedStart", !.pages = pages]
    /\ UNCHANGED <<sessionVars, gpc, selVars, wrapVars, detVars, otherVars>>

\* the consumer calls next(): the body starts with await openPdf(..), or
\* yield* passes the call on to the renderPages generator, whose exhaustion
\* takes the body into the finally block
RppNext ==
    /\ rpp.consumer = "iterating"
    /\ rpp.state \in {"suspendedStart", "suspendedYield", "completed"}
    /\ IF rpp.state = "suspendedStart" THEN
            /\ rpp' = [rpp EXCEPT !.state = "opening"]
            /\ UNCHANGED <<gen, usedAfterDestroy, last>>
       ELSE IF rpp.state = "suspendedYield" THEN
            LET r == genNext(gen["rpp"], closed["rpp"], numPages["rpp"]) IN
            /\ gen' = [gen EXCEPT !["rpp"] = r.gen]
            /\ IF r.render
               THEN /\ rpp' = [rpp EXCEPT !.state = "rendering"]
                    /\ startRender("rpp")
               ELSE /\ rpp' = [rpp EXCEPT !.state = "finally", !.pending = r.code]
                    /\ UNCHANGED usedAfterDestroy
            /\ UNCHANGED last
       ELSE /\ last' = Result("renderPdfPages.next", "rpp", "DONE", Num(0), closed["rpp"])
            /\ UNCHANGED <<rpp, gen, usedAfterDestroy>>
    /\ UNCHANGED <<exists, numPages, closed, destroyCount, closeCalls, call, gpc, selVars, wrapVars, detVars, otherVars>>
    /\ UNCHANGED engineVars

\* await openPdf(..) settles: its error leaves the generator (the try block
\* was not entered), or the session exists and yield* makes the first next()
\* call on pdf.renderPages(options)
RppOpened(shape, read, init, engine) ==
    /\ rpp.state = "opening"
    /\ LET r == open(shape, read, libraryInstance, init, engine) IN
        /\ libraryInstance' = r.lib
        /\ parsed' = [parsed EXCEPT !["rpp"] = @ \/ r.parsed]
        /\ IF r.code # "OK" THEN
            /\ rpp' = [rpp EXCEPT !.state = "completed", !.code = r.code]
            /\ last' = Result("renderPdfPages.next", "rpp", r.code, Num(0), FALSE)
            /\ UNCHANGED <<exists, numPages, gen, usedAfterDestroy>>
           ELSE
            LET st == genNext(NewGenerator(rpp.pages, closed["rpp"]),
                              closed["rpp"], engine.numPages)
            IN  /\ exists' = [exists EXCEPT !["rpp"] = TRUE]
                /\ numPages' = [numPages EXCEPT !["rpp"] = engine.numPages]
                /\ gen' = [gen EXCEPT !["rpp"] = st.gen]
                /\ IF st.render
                   THEN /\ rpp' = [rpp EXCEPT !.state = "rendering"]
                        /\ startRender("rpp")
                   ELSE /\ rpp' = [rpp EXCEPT !.state = "finally", !.pending = st.code]
                        /\ UNCHANGED usedAfterDestroy
                /\ UNCHANGED last
    /\ UNCHANGED <<closed, destroyCount, closeCalls, call, gpc, selVars, wrapVars, detVars, otherVars>>

\* the render awaited by the renderPages generator settles: the page goes
\* through yield* to the consumer, or the error takes the body into the
\* finally block
RppRenderDone(fails) ==
    /\ rpp.state = "rendering"
    /\ LET st == genSettle(gen["rpp"], closed["rpp"], numPages["rpp"], fails) IN
        /\ gen' = [gen EXCEPT !["rpp"] = st.gen]
        /\ IF st.code = "OK"
           THEN /\ rpp' = [rpp EXCEPT !.state = "suspendedYield"]
                /\ last' = Result("renderPdfPages.next", "rpp", "OK", Num(0), closed["rpp"])
           ELSE /\ rpp' = [rpp EXCEPT !.state = "finally", !.pending = st.code,
                                      !.failure = st.error]
                /\ UNCHANGED last
    /\ UNCHANGED <<exists, numPages, closed, destroyCount, closeCalls,
                   usedAfterDestroy, call, gpc, selVars, wrapVars, detVars, otherVars>>
    /\ UNCHANGED engineVars

\* the finally block runs and the completion it held back (exhaustion, the
\* error of renderPages, or the return) reaches the consumer
RppFinally ==
    /\ rpp.state = "finally"
    /\ rppFinally("rpp")
    /\ rpp' = [rpp EXCEPT !.state = "completed", !.code = rpp.pending]
    /\ last' = Delivered(IF rpp.consumer = "returned" THEN "renderPdfPages.return"
                         ELSE "renderPdfPages.next",
                         "rpp",
                         [code |-> rpp.pending, page |-> rpp.failure.page,
                          cause |-> rpp.failure.cause],
                         closed["rpp"])
    /\ UNCHANGED <<exists, numPages, usedAfterDestroy, call, gen, gpc, selVars, wrapVars, detVars, otherVars>>
    /\ UNCHANGED engineVars

\* the consumer calls return() (what break in a for await loop does): before
\* the first next() no statement runs; at a yield, yield* returns the
\* renderPages generator and the body goes into the finally block
RppReturn ==
    /\ rpp.consumer = "iterating"
    /\ rpp.state \in {"suspendedStart", "suspendedYield"}
    /\ IF rpp.state = "suspendedStart" THEN
            /\ rpp' = [rpp EXCEPT !.state = "completed", !.code = "RETURNED",
                                  !.consumer = "returned"]
            /\ last' = Result("renderPdfPages.return", "rpp", "RETURNED", Num(0), FALSE)
            /\ UNCHANGED gen
       ELSE /\ gen' = [gen EXCEPT !["rpp"] = genReturn(gen["rpp"])]
            /\ rpp' = [rpp EXCEPT !.state = "finally", !.pending = "RETURNED",
                                  !.consumer = "returned"]
            /\ UNCHANGED last
    /\ UNCHANGED <<exists, numPages, closed, destroyCount, closeCalls,
                   usedAfterDestroy, call, gpc, selVars, wrapVars, detVars, otherVars>>
    /\ UNCHANGED engineVars

\* the consumer, having taken a page with next(), lets go of the generator
\* without calling return(): nothing resumes the suspended body any more
RppDrop ==
    /\ rpp.consumer = "iterating"
    /\ rpp.state = "suspendedYield"
    /\ rpp' = [rpp EXCEPT !.consumer = "dropped"]
    /\ UNCHANGED <<sessionVars, gpc, selVars, wrapVars, detVars, otherVars>>

\* getPageCount(input, options) up to await openPdf(..)
GetPageCount ==
    /\ gpc.state = "none"
    /\ gpc' = [gpc EXCEPT !.state = "opening"]
    /\ UNCHANGED <<sessionVars, rpp, selVars, wrapVars, detVars, otherVars>>

\* await openPdf(..) settles: its error is the result, or the session exists
\* and `return pdf.pageCount` is evaluated inside the try block
GpcOpened(shape, read, init, engine) ==
    /\ gpc.state = "opening"
    /\ LET r == open(shape, read, libraryInstance, init, engine) IN
        /\ libraryInstance' = r.lib
        /\ parsed' = [parsed EXCEPT !["gpc"] = @ \/ r.parsed]
        /\ IF r.code # "OK" THEN
            /\ gpc' = [gpc EXCEPT !.state = "completed"]
            /\ last' = Result("getPageCount", "gpc", r.code, Num(0), FALSE)
            /\ UNCHANGED <<exists, numPages>>
           ELSE
            /\ exists' = [exists EXCEPT !["gpc"] = TRUE]
            /\ numPages' = [numPages EXCEPT !["gpc"] = engine.numPages]
            /\ gpc' = [gpc EXCEPT !.state = "finally",
                                  !.pending = pageCount(closed["gpc"], engine.numPages)]
            /\ UNCHANGED last
    /\ UNCHANGED <<closed, destroyCount, closeCalls, usedAfterDestroy, call, gen,
                   rpp, selVars, wrapVars, detVars, otherVars>>

\* the finally block runs and the count, or the error of the read, is
\* delivered
GpcFinally ==
    /\ gpc.state = "finally"
    /\ gpcFinally("gpc")
    /\ gpc' = [gpc EXCEPT !.state = "completed"]
    /\ last' = Result("getPageCount", "gpc", gpc.pending.code, gpc.pending.page, FALSE)
    /\ UNCHANGED <<exists, numPages, usedAfterDestroy, call, gen, rpp, selVars, wrapVars, detVars, otherVars>>
    /\ UNCHANGED engineVars

RppOpenedSome ==
    \E shape \in InputShapes, engine \in EngineAnswers :
    \E read \in ReadsOf(shape), init \in InitsOf(libraryInstance) :
        RppOpened(shape, read, init, engine)

RppRenderDoneSome == \E fails \in Failures : RppRenderDone(fails)

GpcOpenedSome ==
    \E shape \in InputShapes, engine \in EngineAnswers :
    \E read \in ReadsOf(shape), init \in InitsOf(libraryInstance) :
        GpcOpened(shape, read, init, engine)

ConvNext ==
    \/ \E pages \in GenSelections : RenderPdfPages(pages)
    \/ RppNext
    \/ RppOpenedSome
    \/ RppRenderDoneSome
    \/ RppFinally
    \/ RppReturn
    \/ RppDrop
    \/ GetPageCount
    \/ GpcOpenedSome
    \/ GpcFinally

ConvSpec == Init /\ [][ConvNext]_vars

\* the event loop resumes every body whose awaited promise has settled; the
\* consumer is free to call next() and return() or not
FairConvSpec ==
    /\ Init
    /\ [][ConvNext]_vars
    /\ WF_vars(RppOpenedSome)
    /\ WF_vars(RppRenderDoneSome)
    /\ WF_vars(RppFinally)
    /\ WF_vars(GpcOpenedSome)
    /\ WF_vars(GpcFinally)

(* ---------------------- properties of the session ---------------------- *)

\* C1: once close() has been called, a read of pageCount and a renderPage
\* call made afterwards throw DOCUMENT_CLOSED, and a generator obtained from
\* renderPages afterwards delivers no page and throws DOCUMENT_CLOSED on its
\* first advance, whatever the page number or selection.
C1_ClosedRejects ==
    /\ (last.op \in {"pageCount", "renderPage"} /\ last.callClosed) =>
            last.code = "DOCUMENT_CLOSED"
    /\ \A s \in SessionIds :
        gen[s].bornClosed =>
            /\ gen[s].delivered = << >>
            /\ gen[s].state \in {"suspendedStart", "completed"}
            /\ gen[s].state = "completed" => gen[s].code \in {"DOCUMENT_CLOSED", "RETURNED"}
    /\ (last.op = "next" /\ last.callClosed) => last.code \in {"DOCUMENT_CLOSED", "DONE"}

\* a generator obtained after close() for a selection that is itself invalid
\* was advanced and threw DOCUMENT_CLOSED
C1_Witness ==
    /\ closed["s1"]
    /\ gen["s1"].bornClosed
    /\ gen["s1"].pages = PagesList(<<Num(MaxPages + 1)>>)
    /\ gen["s1"].state = "completed"
    /\ last.op = "next"
    /\ last.code = "DOCUMENT_CLOSED"

\* C2: however close() and Symbol.asyncDispose are called on a session, the
\* engine document is destroyed exactly once, by the first call; the closed
\* flag goes from false to true and never back; every call returns normally.
C2_CloseOnce ==
    /\ [](\A s \in SessionIds :
            /\ destroyCount[s] = (IF closeCalls[s] > 0 THEN 1 ELSE 0)
            /\ closed[s] <=> closeCalls[s] > 0)
    /\ [](last.op \in {"close", "asyncDispose"} => last.code = "OK")
    /\ [][\A s \in SessionIds : closed[s] => closed'[s]]_vars

\* close() was called a second time, through Symbol.asyncDispose
C2_Witness ==
    /\ closeCalls["s1"] = 2
    /\ destroyCount["s1"] = 1
    /\ last.op = "asyncDispose"
    /\ last.callClosed

\* C3: the engine handle of a session is not used once the session is
\* closed: no page is rasterized after destroy(), a generator advanced after
\* close() included.
C3_NoUseAfterClose == \A s \in SessionIds : ~usedAfterDestroy[s]

\* p is a number below 1 or above n
Outside(p, n) == p.k \in {"int", "frac"} /\ (Twice(p) < 2 \/ Twice(p) > 2 * n)

\* C12: renderPage(p) on an open session over N pages, with p < 1 or p > N,
\* throws INVALID_PAGE_NUMBER naming p, and the call starts no render: no
\* call is left in flight and the engine handle is not touched.
C12_InvalidPageRejected ==
    /\ [][\A p \in Numbers :
            (RenderPage("s1", p) /\ ~closed["s1"] /\ Outside(p, numPages["s1"])) =>
                /\ last' = Result("renderPage", "s1", "INVALID_PAGE_NUMBER", p, FALSE)
                /\ call' = call
                /\ usedAfterDestroy' = usedAfterDestroy]_vars
    /\ [](last.op = "renderPage" /\ last.code = "INVALID_PAGE_NUMBER" =>
            /\ Outside(last.page, numPages[last.s])
            /\ ~last.callClosed)

\* renderPage(N + 1) on an open session was rejected with no render in flight
C12_Witness ==
    /\ last = Result("renderPage", "s1", "INVALID_PAGE_NUMBER", Num(MaxPages + 1), FALSE)
    /\ numPages["s1"] = MaxPages
    /\ ~closed["s1"]
    /\ ~call["s1"].active

\* renderPage(0) on an open session was rejected
C12_ZeroWitness ==
    /\ last = Result("renderPage", "s1", "INVALID_PAGE_NUMBER", Num(0), FALSE)
    /\ numPages["s1"] >= 1
    /\ ~closed["s1"]

\* C13: a renderPages generator whose selection the page selector rejects
\* never starts a render and never delivers a page: its first advance throws
\* INVALID_PAGE_NUMBER (DOCUMENT_CLOSED on a closed session), also when the
\* selection begins with valid page numbers.
C13_EagerValidation ==
    /\ \A s \in SessionIds :
        (gen[s].state # "none" /\ ~resolvePageNumbers(gen[s].pages, numPages[s]).ok) =>
            /\ gen[s].state \in {"suspendedStart", "completed"}
            /\ gen[s].idx = 0
            /\ gen[s].pageNumbers = << >>
            /\ gen[s].delivered = << >>
            /\ gen[s].state = "completed" =>
                    gen[s].code \in {"INVALID_PAGE_NUMBER", "DOCUMENT_CLOSED", "RETURNED"}
    /\ (last.op = "next" /\ last.code = "INVALID_PAGE_NUMBER") =>
            /\ gen[last.s].delivered = << >>
            /\ gen[last.s].idx = 0
            /\ ~resolvePageNumbers(gen[last.s].pages, numPages[last.s]).ok

\* a list whose first element is valid and whose second is not was rejected
\* by the first advance
C13_Witness ==
    /\ gen["s1"].pages = PagesList(<<Num(1), Num(MaxPages + 1)>>)
    /\ numPages["s1"] = MaxPages
    /\ gen["s1"].state = "completed"
    /\ gen["s1"].code = "INVALID_PAGE_NUMBER"
    /\ gen["s1"].delivered = << >>
    /\ last = Result("next", "s1", "INVALID_PAGE_NUMBER", Num(0), FALSE)

\* C14: a renderPages generator consumed to exhaustion with every render
\* successful has delivered exactly the page numbers the page selector
\* returned for its selection, in that order, repeated numbers included; until
\* then what it has delivered is the beginning of that sequence.
C14_DeliversResolvedSequence ==
    \A s \in SessionIds :
        LET g == gen[s]
            r == resolvePageNumbers(g.pages, numPages[s])
        IN  /\ (g.state = "completed" /\ g.code = "DONE") =>
                    r.ok /\ g.delivered = r.pages
            /\ (g.delivered # << >>) =>
                    /\ r.ok
                    /\ Len(g.delivered) <= Len(r.pages)
                    /\ g.delivered = SubSeq(r.pages, 1, Len(g.delivered))

\* a list in descending order was delivered in that order
C14_Witness ==
    /\ gen["s1"].pages = PagesList(<<Num(2), Num(1)>>)
    /\ gen["s1"].state = "completed"
    /\ gen["s1"].code = "DONE"
    /\ gen["s1"].delivered = <<Num(2), Num(1)>>
    /\ last.op = "next"
    /\ last.code = "DONE"

\* a list naming the same page twice had it rendered twice
C14_RepeatWitness ==
    /\ gen["s1"].pages = PagesList(<<Num(1), Num(1)>>)
    /\ gen["s1"].state = "completed"
    /\ gen["s1"].code = "DONE"
    /\ gen["s1"].delivered = <<Num(1), Num(1)>>

\* C15: when the render of the K-th resolved page fails, that advance throws
\* RENDER_FAILED, the consumer holds exactly the first K - 1 resolved pages,
\* and the generator is finished: it starts no render and delivers nothing
\* afterwards.
C15_FailureEndsSequence ==
    /\ [][\A s \in SessionIds :
            (\E fails \in Failures \ {"none"} : GenRenderDone(s, fails)) =>
                /\ gen'[s].state = "completed"
                /\ gen'[s].code = "RENDER_FAILED"
                /\ gen'[s].delivered = SubSeq(gen[s].pageNumbers, 1, gen[s].idx - 1)
                /\ last'.op = "next"
                /\ last'.code = "RENDER_FAILED"]_vars
    /\ [](\A s \in SessionIds :
            (gen[s].state = "completed" /\ gen[s].code = "RENDER_FAILED") =>
                gen[s].delivered = SubSeq(gen[s].pageNumbers, 1, gen[s].idx - 1))
    /\ [][\A s \in SessionIds : gen[s].state = "completed" => gen'[s] = gen[s]]_vars

\* the render of the second of two pages failed after the first was delivered
C15_Witness ==
    /\ gen["s1"].state = "completed"
    /\ gen["s1"].code = "RENDER_FAILED"
    /\ gen["s1"].idx = 2
    /\ gen["s1"].delivered = <<gen["s1"].pageNumbers[1]>>
    /\ ~closed["s1"]
    /\ last.op = "next"
    /\ last.code = "RENDER_FAILED"
    /\ ~last.callClosed

\* C23: a renderPages generator renders on demand: it has started at most
\* as many renders as the consumer has made advances, while it is suspended
\* at a yield every render it started is over and its page delivered, and
\* at no time has it rendered more than one page it has not handed over.
C23_RendersOnDemand ==
    \A s \in SessionIds :
        LET g == gen[s] IN
        /\ g.started <= g.advances
        /\ g.started <= Len(g.delivered) + 1
        /\ g.state \in {"suspendedStart", "suspendedYield"} => g.started = Len(g.delivered)
        /\ g.state = "executing" =>
                g.started = g.advances /\ g.started = Len(g.delivered) + 1

\* the consumer holds the first of two pages and has not asked for the
\* second: its render has not started
C23_Witness ==
    /\ gen["s1"].state = "suspendedYield"
    /\ Len(gen["s1"].pageNumbers) = 2
    /\ gen["s1"].delivered = <<gen["s1"].pageNumbers[1]>>
    /\ gen["s1"].advances = 1
    /\ gen["s1"].started = 1
    /\ last.op = "next"
    /\ last.code = "OK"

\* C26: when the engine or the encoder raises an exception during the render
\* of page p, the renderPage call, or the advance of the renderPages
\* generator, throws a PdfError of code RENDER_FAILED whose message names p
\* and whose cause is that exception; the generator is finished by it.
C26_RenderFailureWrapped ==
    /\ [][\A fails \in Failures \ {"none"} :
            /\ RenderPageDone("s1", fails) =>
                    last' = [Result("renderPage", "s1", "RENDER_FAILED", call["s1"].page,
                                    call["s1"].callClosed) EXCEPT !.cause = fails]
            /\ GenRenderDone("s1", fails) =>
                    /\ last' = [Result("next", "s1", "RENDER_FAILED",
                                       gen["s1"].pageNumbers[gen["s1"].idx],
                                       gen["s1"].bornClosed) EXCEPT !.cause = fails]
                    /\ gen'["s1"].code = "RENDER_FAILED"]_vars
    /\ [](last.code = "RENDER_FAILED" =>
            /\ last.op \in {"renderPage", "next"}
            /\ ~JsLt(last.page, Num(1))
            /\ last.cause # "none")

\* sharp rejected while the second page of a generator was encoded: the
\* advance threw RENDER_FAILED naming that page, with sharp's error as cause
C26_Witness ==
    /\ last.op = "next"
    /\ last.code = "RENDER_FAILED"
    /\ last.cause = "encoder"
    /\ gen["s1"].idx = 2
    /\ last.page = gen["s1"].pageNumbers[2]
    /\ gen["s1"].state = "completed"

\* page.render rejected during a renderPage call
C26_RenderPageWitness ==
    /\ last.op = "renderPage"
    /\ last.code = "RENDER_FAILED"
    /\ last.cause = "engine"
    /\ last.page = Num(MaxPages)
    /\ ~call["s1"].active

\* C16: whatever a public operation delivers to its caller is a value or a
\* PdfError with one of the nine codes; no other exception gets out.
C16_OnlyPdfErrors == last.code \in PdfErrorCodes \cup {"OK", "DONE", "RETURNED"}

\* the same for callers that open a session once the PDFium library has
\* been initialised: holds
C16_OnlyPdfErrorsOnceInitialised ==
    libraryInstance => last.code \in PdfErrorCodes \cup {"OK", "DONE", "RETURNED"}

\* the input is a path that does not exist, or of no supported type
Unreadable(shape, read) == shape = "other" \/ (shape = "string" /\ read = "ENOENT")

\* C17: openPdf on a path that does not exist throws FILE_NOT_FOUND, on an
\* input of no supported type INVALID_INPUT; the PDFium library is neither
\* initialised nor asked to load a document, and no session is constructed.
C17_UnreadableInput ==
    /\ [][\A shape \in InputShapes :
            \A read \in ReadsOf(shape) :
            (Unreadable(shape, read) /\ ~exists["s1"]) =>
            \A init \in InitsOf(libraryInstance), engine \in EngineAnswers :
            OpenPdf("s1", shape, read, init, engine) =>
                /\ last' = Result("openPdf", "s1",
                                  IF shape = "string" THEN "FILE_NOT_FOUND"
                                  ELSE "INVALID_INPUT",
                                  Num(0), FALSE)
                /\ ~exists'["s1"]
                /\ parsed' = parsed
                /\ libraryInstance' = libraryInstance]_vars
    /\ [](last.op = "openPdf" /\ last.code \in {"FILE_NOT_FOUND", "INVALID_INPUT"} =>
            ~exists[last.s])

\* openPdf on a missing file failed before the engine was touched
C17_Witness ==
    /\ last = Result("openPdf", "s1", "FILE_NOT_FOUND", Num(0), FALSE)
    /\ ~exists["s1"]
    /\ ~parsed["s1"]
    /\ ~libraryInstance

\* openPdf on an input of no supported type failed the same way
C17_InvalidInputWitness ==
    /\ last = Result("openPdf", "s1", "INVALID_INPUT", Num(0), FALSE)
    /\ ~exists["s1"]
    /\ ~parsed["s1"]
    /\ ~libraryInstance

\* C21: a call of Symbol.asyncDispose leaves the session as close() does:
\* closed, its engine document destroyed exactly once in all, and the call
\* returns normally; also when close() was called before it, and when the
\* scope is left because an operation threw.
C21_DisposeIsClose ==
    last.op = "asyncDispose" =>
        /\ last.code = "OK"
        /\ closed[last.s]
        /\ destroyCount[last.s] = 1
        /\ closeCalls[last.s] >= 1

\* the scope was left by the RENDER_FAILED a renderPages generator threw, and
\* the disposal closed the session that was open until then
C21_Witness ==
    /\ last = Result("asyncDispose", "s1", "OK", Num(0), FALSE)
    /\ gen["s1"].state = "completed"
    /\ gen["s1"].code = "RENDER_FAILED"
    /\ closed["s1"]
    /\ closeCalls["s1"] = 1
    /\ destroyCount["s1"] = 1

\* the disposal came after a close() and destroyed nothing more
C21_AfterCloseWitness ==
    /\ last = Result("asyncDispose", "s1", "OK", Num(0), TRUE)
    /\ closeCalls["s1"] = 2
    /\ destroyCount["s1"] = 1
    /\ ~call["s1"].active

(* --------------- properties of the convenience functions --------------- *)

\* C4: renderPdfPages with no page selection, consumed to exhaustion over a
\* document of N pages, has delivered exactly the pages 1, 2, ..., N in that
\* order, and when exhaustion is reported the session it opened is closed,
\* its handle destroyed once, by the one close() of the finally block.
C4_AllPagesThenClosed ==
    (rpp.state = "completed" /\ rpp.code = "DONE" /\ rpp.pages = PagesAbsent) =>
        /\ Len(gen["rpp"].delivered) = numPages["rpp"]
        /\ \A i \in 1..numPages["rpp"] : gen["rpp"].delivered[i] = Num(i)
        /\ closed["rpp"]
        /\ destroyCount["rpp"] = 1
        /\ closeCalls["rpp"] = 1

C4_Witness ==
    /\ rpp.state = "completed"
    /\ rpp.code = "DONE"
    /\ rpp.pages = PagesAbsent
    /\ numPages["rpp"] = MaxPages
    /\ Len(gen["rpp"].delivered) = MaxPages
    /\ last.op = "renderPdfPages.next"
    /\ last.code = "DONE"

\* C5: when the renderPages generator inside renderPdfPages throws, the
\* session is closed by the time the consumer has the error, and the error
\* is the one renderPages threw.
C5_ErrorAfterClose ==
    /\ (last.s = "rpp" /\ last.code \in PdfErrorCodes /\ exists["rpp"]) =>
            /\ closed["rpp"]
            /\ closeCalls["rpp"] = 1
            /\ destroyCount["rpp"] = 1
            /\ last.code = gen["rpp"].code
    /\ (rpp.state = "completed" /\ gen["rpp"].code \in PdfErrorCodes) =>
            /\ rpp.code = gen["rpp"].code
            /\ closed["rpp"]

\* the render of the second page failed after the first was delivered
C5_Witness ==
    /\ last.s = "rpp"
    /\ last.code = "RENDER_FAILED"
    /\ gen["rpp"].code = "RENDER_FAILED"
    /\ Len(gen["rpp"].delivered) = 1
    /\ closed["rpp"]

\* the consumer has stopped consuming after at least one page and before
\* exhaustion: by return(), or by letting go of the generator
Abandoned ==
    /\ rpp.consumer \in {"returned", "dropped"}
    /\ Len(gen["rpp"].delivered) >= 1

\* C6 as stated: a consumer that abandons the sequence after a page was
\* delivered and before exhaustion leads to the session being closed.
C6_AbandonedIsClosed == Abandoned ~> closed["rpp"]

\* C6 amended: a consumer that ends the sequence early with return() after
\* a page was delivered leads to the session being closed, and it is closed,
\* its handle destroyed once, when return() has settled.
C6_ReturnedIsClosed ==
    /\ (rpp.consumer = "returned" /\ Len(gen["rpp"].delivered) >= 1) ~> closed["rpp"]
    /\ [](rpp.state = "completed" /\ rpp.code = "RETURNED" /\ exists["rpp"] =>
            closed["rpp"] /\ destroyCount["rpp"] = 1)

C6_Witness ==
    /\ rpp.state = "completed"
    /\ rpp.code = "RETURNED"
    /\ rpp.consumer = "returned"
    /\ Len(gen["rpp"].delivered) >= 1
    /\ closed["rpp"]
    /\ last.op = "renderPdfPages.return"

SelInit ==
    /\ SessionInit
    /\ selPages \in Selections
    /\ selN \in 0..MaxPages
    /\ selOut = NotRun
    /\ wrapMsg = {}
    /\ wrapOut = NotWrapped

SelResolve ==
    /\ selOut = NotRun
    /\ selOut' = resolvePageNumbers(selPages, selN)
    /\ UNCHANGED <<selPages, selN>>
    /\ UNCHANGED <<sessionVars, convVars, wrapVars, detVars, otherVars>>

SelNext == SelResolve

SelSpec == SelInit /\ [][SelNext]_vars

(* ------------------- properties of the page selector ------------------- *)

\* p lies in the interval [1, n]
InDocument(p, n) == p.k \in {"int", "frac"} /\ 2 <= Twice(p) /\ Twice(p) <= 2 * n

\* index of the first element of l outside [1, n], 0 when there is none
RECURSIVE FirstOutside(_, _, _)
FirstOutside(l, n, i) ==
    IF i > Len(l) THEN 0
    ELSE IF ~InDocument(l[i], n) THEN i
    ELSE FirstOutside(l, n, i + 1)

\* C8: with no page selection the selector returns exactly 1, 2, ..., N in
\* ascending order (nothing when N = 0) and does not fail.
C8_AbsentIsIdentity ==
    (selOut # NotRun /\ selPages.kind = "absent") =>
        /\ selOut.ok
        /\ Len(selOut.pages) = selN
        /\ \A i \in 1..selN : selOut.pages[i] = Num(i)

C8_Witness ==
    /\ selPages.kind = "absent"
    /\ selN = MaxPages
    /\ selOut.ok
    /\ Len(selOut.pages) = MaxPages

\* C9: an explicit list whose elements all lie in [1, N] is returned as it
\* was given: same length, same order, duplicates kept.
C9_ValidListUnchanged ==
    (/\ selOut # NotRun
     /\ selPages.kind = "list"
     /\ \A i \in 1..Len(selPages.list) : InDocument(selPages.list[i], selN)) =>
        /\ selOut.ok
        /\ selOut.pages = selPages.list

\* a list that is neither sorted nor duplicate-free came back unchanged
C9_Witness ==
    /\ selPages.kind = "list"
    /\ selN = 2
    /\ selPages.list = <<Num(2), Num(1), Num(1)>>
    /\ selOut.ok
    /\ selOut.pages = <<Num(2), Num(1), Num(1)>>

\* C10: an explicit list with an element outside [1, N] is rejected with
\* INVALID_PAGE_NUMBER, and the error names the first such element and N.
C10_InvalidListRejected ==
    (/\ selOut # NotRun
     /\ selPages.kind = "list"
     /\ FirstOutside(selPages.list, selN, 1) # 0) =>
        /\ ~selOut.ok
        /\ selOut.code = "INVALID_PAGE_NUMBER"
        /\ selOut.ref = selPages.list[FirstOutside(selPages.list, selN, 1)]
        /\ selOut.n = selN

\* the same for lists of numbers that compare (no NaN element): holds
C10_ComparableListRejected ==
    (/\ selOut # NotRun
     /\ selPages.kind = "list"
     /\ \A i \in 1..Len(selPages.list) : selPages.list[i] # NaN
     /\ FirstOutside(selPages.list, selN, 1) # 0) =>
        /\ ~selOut.ok
        /\ selOut.code = "INVALID_PAGE_NUMBER"
        /\ selOut.ref = selPages.list[FirstOutside(selPages.list, selN, 1)]
        /\ selOut.n = selN

\* the effective bound of a range: the integer given, or the default
Effective(bound, default) == IF bound = Undefined THEN default ELSE bound.n

C11_ResolvedWitness ==
    /\ selPages = PagesRange(Num(1), Undefined)
    /\ selN = MaxPages
    /\ selOut.ok
    /\ Len(selOut.pages) = MaxPages

\* C28: an explicit list with an element that is not an integer (1.5, or
\* not-a-number) is rejected with INVALID_PAGE_NUMBER, so no such value is
\* among the page numbers the selector returns for rendering.
C28_NonIntegerRejected ==
    (/\ selOut # NotRun
     /\ selPages.kind = "list"
     /\ \E i \in 1..Len(selPages.list) : selPages.list[i].k # "int") =>
        /\ ~selOut.ok
        /\ selOut.code = "INVALID_PAGE_NUMBER"
        /\ selOut.pages = << >>

\* the same for non-integers outside [1, N] that compare, such as 1.5 with
\* N = 1: holds
C28_NonIntegerOutsideRejected ==
    (/\ selOut # NotRun
     /\ selPages.kind = "list"
     /\ \E i \in 1..Len(selPages.list) :
            selPages.list[i].k = "frac" /\ ~InDocument(selPages.list[i], selN)) =>
        /\ ~selOut.ok
        /\ selOut.code = "INVALID_PAGE_NUMBER"
        /\ selOut.pages = << >>

(* ------------------------ wrapPdfiumError alone ------------------------ *)

WrapInit ==
    /\ SessionInit
    /\ selPages = PagesAbsent
    /\ selN = 0
    /\ selOut = NotRun
    /\ wrapMsg \in Messages
    /\ wrapOut = NotWrapped

\* the catch block of open: throw wrapPdfiumError(error)
WrapError ==
    /\ wrapOut = NotWrapped
    /\ wrapOut' = wrapPdfiumError(wrapMsg)
    /\ UNCHANGED wrapMsg
    /\ UNCHANGED <<sessionVars, convVars, selVars, detVars, otherVars>>

WrapNext == WrapError

WrapSpec == WrapInit /\ [][WrapNext]_vars

(* ------------------- properties of wrapPdfiumError --------------------- *)

\* the text contains the token, in whatever case
Mentions(m, token) == token \in m \/ Capitalised(token) \in m

\* the text contains one of the structural tokens
Structural(m) == Mentions(m, "invalid") \/ Mentions(m, "not a pdf") \/ Mentions(m, "format")

\* C18: an engine failure text containing "password", in whatever case, is
\* classified INVALID_PASSWORD when it also contains "incorrect" or "wrong",
\* and PASSWORD_REQUIRED otherwise.
C18_PasswordClassified ==
    (wrapOut # NotWrapped /\ Mentions(wrapMsg, "password")) =>
        wrapOut.code = IF Mentions(wrapMsg, "incorrect") \/ Mentions(wrapMsg, "wrong")
                       THEN "INVALID_PASSWORD" ELSE "PASSWORD_REQUIRED"

\* the same for texts with none of the structural tokens: holds
C18_PasswordClassifiedUnlessStructural ==
    (wrapOut # NotWrapped /\ Mentions(wrapMsg, "password") /\ ~Structural(wrapMsg)) =>
        wrapOut.code = IF Mentions(wrapMsg, "incorrect") \/ Mentions(wrapMsg, "wrong")
                       THEN "INVALID_PASSWORD" ELSE "PASSWORD_REQUIRED"

\* C19: an engine failure text containing "invalid", "not a pdf" or "format",
\* in whatever case, is classified INVALID_PDF; a text with none of the six
\* tokens is classified UNKNOWN; the result is always one PdfError of the
\* taxonomy whose cause is the original failure.
C19_StructuralClassified ==
    wrapOut # NotWrapped =>
        /\ Structural(wrapMsg) => wrapOut.code = "INVALID_PDF"
        /\ (\A t \in Tokens : ~Mentions(wrapMsg, t)) => wrapOut.code = "UNKNOWN"
        /\ wrapOut.code \in PdfErrorCodes
        /\ wrapOut.cause = wrapMsg

\* a text spelling the token with capitals was classified INVALID_PDF
C19_Witness ==
    /\ wrapMsg = {"Not a PDF"}
    /\ wrapOut = Wrapped("INVALID_PDF", {"Not a PDF"})

\* a text with none of the tokens was classified UNKNOWN
C19_UnknownWitness ==
    /\ wrapMsg = {}
    /\ wrapOut = Wrapped("UNKNOWN", {})

(* ------------- two sessions rendering the same documents --------------- *)

\* renderedPageOf taking no options once the session has returned a page
renderedPageOptionsOnce(s, p, options) ==
    RenderedPage(document[s], pageCount(closed[s], numPages[s]).page.n, p,
                 IF rendered[s].after THEN NoOptions ELSE options)

\* the RenderedPage renderPageInternal returns on session s
renderedPageOf(s, p, options) ==
    RenderedPage(document[s], pageCount(closed[s], numPages[s]).page.n, p, options)

\* openPdf(bytes) on a session object not yet constructed
DetOpenPdf(s, bytes) ==
    /\ ~exists[s]
    /\ LET r == open("Uint8Array", "read", libraryInstance, "ready", loadDocument(bytes)) IN
        /\ exists' = [exists EXCEPT ![s] = (r.code = "OK")]
        /\ numPages' = [numPages EXCEPT ![s] = loadDocument(bytes).numPages]
        /\ document' = [document EXCEPT ![s] = bytes]
        /\ libraryInstance' = r.lib
        /\ parsed' = [parsed EXCEPT ![s] = @ \/ r.parsed]
        /\ last' = Result("openPdf", s, r.code, Num(0), FALSE)
    /\ UNCHANGED <<closed, destroyCount, closeCalls, usedAfterDestroy, call, gen,
                   rendered, convVars, selVars, wrapVars, otherVars>>

\* renderPage(p, options) up to the await inside renderPageInternal
DetRenderPage(s, p, options) ==
    /\ exists[s]
    /\ rendered[s].state # "pending"
    /\ IF ensureOpen(closed[s]) THEN
            /\ last' = Result("renderPage", s, "DOCUMENT_CLOSED", Num(0), closed[s])
            /\ UNCHANGED <<rendered, usedAfterDestroy>>
       ELSE IF OutOfRange(p, pageCount(closed[s], numPages[s]).page.n) THEN
            /\ last' = Result("renderPage", s, "INVALID_PAGE_NUMBER", p, closed[s])
            /\ UNCHANGED <<rendered, usedAfterDestroy>>
       ELSE
            /\ rendered' = [rendered EXCEPT ![s] =
                    [state |-> "pending", page |-> p, options |-> options,
                     out |-> NoPage,
                     after |-> (rendered[s].after \/ rendered[s].state = "done")]]
            /\ startRender(s)
            /\ UNCHANGED last
    /\ UNCHANGED <<exists, numPages, closed, destroyCount, closeCalls, call, gen,
                   engineVars, document, convVars, selVars, wrapVars, otherVars>>

\* the render settles and renderPage returns the page or throws
DetRenderPageDone(s, fails) ==
    /\ rendered[s].state = "pending"
    /\ LET r == renderPageInternal(closed[s], numPages[s], rendered[s].page, fails) IN
        /\ last' = Delivered("renderPage", s, r, FALSE)
        /\ rendered' = [rendered EXCEPT ![s] =
                IF r.code = "OK"
                THEN [@ EXCEPT !.state = "done",
                               !.out = renderedPageOf(s, rendered[s].page,
                                                      rendered[s].options)]
                ELSE [NoRequest EXCEPT !.state = "failed", !.after = rendered[s].after]]
    /\ UNCHANGED <<exists, numPages, closed, destroyCount, closeCalls,
                   usedAfterDestroy, call, gen, engineVars, document, convVars,
                   selVars, wrapVars, otherVars>>

DetSessions == {"s1", "s2"}

DetNext ==
    \/ \E s \in DetSessions, bytes \in Bytes : DetOpenPdf(s, bytes)
    \/ \E s \in DetSessions, p \in {Num(i) : i \in 0..(MaxPages + 1)},
          options \in RenderOptions : DetRenderPage(s, p, options)
    \/ \E s \in DetSessions, fails \in Failures : DetRenderPageDone(s, fails)
    \/ Close("s1") /\ UNCHANGED <<selVars, wrapVars, detVars, otherVars, convVars>>

DetSpec == Init /\ [][DetNext]_vars

(* ---------------------- properties of two sessions --------------------- *)

FontSessions == {"s1", "s2"}

\* captured warnings are counted up to this many
MaxWarnings == 2

\* this.warnings.push(...)
push(cap) ==
    [cap EXCEPT !.warnings = IF @ < MaxWarnings THEN @ + 1 ELSE @]

\* the patches that run when the function f is called: the patch installed
\* by start() of session f's capture, then whatever its originalConsoleLog
\* is at the time of the call. A patch whose originalConsoleLog leads back
\* to itself recurses until the stack overflows; it has pushed by then.
RECURSIVE patchesRun(_, _, _)
patchesRun(f, caps, seen) ==
    IF f \notin FontSessions \/ f \in seen THEN seen
    ELSE patchesRun(caps[f].originalConsoleLog, caps, seen \cup {f})

\* console.log("Warning: ...") with a font warning, console.log being log
consoleLogCall(log, caps) ==
    [t \in SessionIds |->
        IF t \in patchesRun(log, caps, {}) THEN push(caps[t]) ELSE caps[t]]

\* FontWarningCapture.start of session s, console.log being log: the capture
\* and console.log afterwards
start(s, cap, log) ==
    IF cap.isCapturing THEN [cap |-> cap, log |-> log]
    ELSE [cap |-> [warnings |-> 0, originalConsoleLog |-> log, isCapturing |-> TRUE],
          log |-> s]

\* FontWarningCapture.stop
stop(cap, log) ==
    IF ~cap.isCapturing THEN [cap |-> cap, log |-> log]
    ELSE [cap |-> [cap EXCEPT !.isCapturing = FALSE], log |-> cap.originalConsoleLog]

\* FontWarningCapture.hasWarnings
hasWarnings(cap) == cap.warnings > 0

\* FontWarningCapture.clear
clear(cap) == [cap EXCEPT !.warnings = 0]

\* the finally block of renderPageInternal: stop and clear when
\* throwOnFontError is set
finallyCapture(strict, cap, log) ==
    IF strict THEN [cap |-> clear(stop(cap, log).cap), log |-> stop(cap, log).log]
    ELSE [cap |-> cap, log |-> log]

\* the finally block of renderPageInternal: if (page) page.cleanup()
finallyCleanup(r) ==
    IF r.page THEN [r EXCEPT !.cleanups = @ + 1, !.page = FALSE] ELSE r

\* the error classes of the font mode: FontError and its subclasses, and the
\* RENDER_FAILED PdfError
RenderFailedFamily == {"RENDER_FAILED", "FONT_ERROR"}

\* what the try and catch blocks deliver once page.render has settled
renderOutcome(strict, cap, fails) ==
    IF fails = "engine" THEN "RENDER_FAILED"
    ELSE IF strict /\ hasWarnings(cap) THEN "FONT_ERROR"
    ELSE IF fails = "encoder" THEN "RENDER_FAILED"
    ELSE "OK"

FontInFlight(s) == fontRender[s].state \in {"loading", "rendering"}

FontUnchanged ==
    UNCHANGED <<sessionVars, convVars, selVars, wrapVars, detVars, pageVars, libVars>>

\* PdfDocumentImpl.open with options.throwOnFontError ?? false
FontOpenPdf(s, strict) ==
    /\ fontRender[s].state = "unopened"
    /\ throwOnFontError' = [throwOnFontError EXCEPT ![s] = strict]
    /\ fontRender' = [fontRender EXCEPT ![s].state = "idle"]
    /\ UNCHANGED <<consoleLog, warningCapture>>
    /\ FontUnchanged

\* renderPageInternal up to `await this.document.getPage(pageNumber)`
FontRenderStart(s) ==
    /\ fontRender[s].state \in {"idle", "returned", "failed"}
    /\ LET c == IF throwOnFontError[s]
                THEN start(s, warningCapture[s], consoleLog)
                ELSE [cap |-> warningCapture[s], log |-> consoleLog] IN
        /\ warningCapture' = [warningCapture EXCEPT ![s] = c.cap]
        /\ consoleLog' = c.log
    /\ fontRender' = [fontRender EXCEPT ![s] =
            [NoFontRender EXCEPT !.state = "loading"]]
    /\ UNCHANGED throwOnFontError
    /\ FontUnchanged

\* getPage settles: the page is kept and page.render is awaited, or the
\* catch and finally blocks run with `page` still null
FontGetPage(s, ok) ==
    /\ fontRender[s].state = "loading"
    /\ IF ok THEN
            /\ fontRender' = [fontRender EXCEPT ![s].state = "rendering",
                                                ![s].page = TRUE,
                                                ![s].obtained = @ + 1]
            /\ UNCHANGED <<consoleLog, warningCapture>>
       ELSE LET f == finallyCapture(throwOnFontError[s], warningCapture[s], consoleLog) IN
            /\ fontRender' = [fontRender EXCEPT ![s] =
                    [finallyCleanup(@) EXCEPT !.state = "failed",
                                              !.code = "RENDER_FAILED"]]
            /\ warningCapture' = [warningCapture EXCEPT ![s] = f.cap]
            /\ consoleLog' = f.log
    /\ UNCHANGED throwOnFontError
    /\ FontUnchanged

\* pdf.js warns about a font while it renders the page of session s: it
\* calls the global console.log
FontDiagnostic(s) ==
    /\ fontRender[s].state = "rendering"
    /\ warningCapture' = consoleLogCall(consoleLog, warningCapture)
    /\ fontRender' = [t \in SessionIds |->
            IF t = s THEN [fontRender[t] EXCEPT !.own = TRUE, !.heard = TRUE]
            ELSE IF FontInFlight(t) THEN [fontRender[t] EXCEPT !.heard = TRUE]
            ELSE fontRender[t]]
    /\ UNCHANGED <<consoleLog, throwOnFontError>>
    /\ FontUnchanged

\* page.render settles; the rest of the try block, the catch block and the
\* finally block
FontRenderDone(s, fails) ==
    /\ fontRender[s].state = "rendering"
    /\ LET code == renderOutcome(throwOnFontError[s], warningCapture[s], fails)
           f == finallyCapture(throwOnFontError[s], warningCapture[s], consoleLog) IN
        /\ fontRender' = [fontRender EXCEPT ![s] =
                [finallyCleanup(@) EXCEPT
                    !.state = IF code = "OK" THEN "returned" ELSE "failed",
                    !.code = code]]
        /\ warningCapture' = [warningCapture EXCEPT ![s] = f.cap]
        /\ consoleLog' = f.log
    /\ UNCHANGED throwOnFontError
    /\ FontUnchanged

FontNext ==
    \/ \E s \in FontSessions, strict \in BOOLEAN : FontOpenPdf(s, strict)
    \/ \E s \in FontSessions : FontRenderStart(s)
    \/ \E s \in FontSessions, ok \in BOOLEAN : FontGetPage(s, ok)
    \/ \E s \in FontSessions : FontDiagnostic(s)
    \/ \E s \in FontSessions, fails \in Failures : FontRenderDone(s, fails)

FontSpec == Init /\ [][FontNext]_vars

(* ------------------ properties of the font warning capture -------------- *)

\* C25: whenever no render call is in flight on any session, console.log is
\* the function that was installed before the first render started.
C25_ConsoleLogRestored ==
    (\A s \in FontSessions : ~FontInFlight(s)) => consoleLog = "log"

\* with one session rendering (the other never started a render) console.log
\* is restored by every render
C25_RestoredWithoutOverlap ==
    \A s \in FontSessions, t \in FontSessions :
        (/\ s # t
         /\ ~FontInFlight(s)
         /\ fontRender[t].state \in {"unopened", "idle"}) => consoleLog = "log"

\* C27: with throwOnFontError set, a render call during which the engine
\* emitted a font diagnostic for the page being rendered fails with an error
\* of the RenderFailed family and returns no page; without it no render fails
\* because of a font diagnostic; and a render fails with a font error only
\* if a diagnostic was emitted during that very call.
C27_StrictFontsPerCall ==
    \A s \in FontSessions :
        /\ (/\ throwOnFontError[s]
            /\ fontRender[s].state \in {"returned", "failed"}
            /\ fontRender[s].own) =>
                /\ fontRender[s].state = "failed"
                /\ fontRender[s].code \in RenderFailedFamily
        /\ ~throwOnFontError[s] => fontRender[s].code # "FONT_ERROR"
        /\ fontRender[s].code = "FONT_ERROR" => fontRender[s].heard

\* the same while the other session has not started a render
C27_StrictFontsWithoutOverlap ==
    \A s \in FontSessions, t \in FontSessions :
        (/\ s # t
         /\ fontRender[t].state \in {"unopened", "idle"}
         /\ throwOnFontError[s]
         /\ fontRender[s].state \in {"returned", "failed"}
         /\ fontRender[s].own) =>
            /\ fontRender[s].state = "failed"
            /\ fontRender[s].code \in RenderFailedFamily

\* the parts of C27 that do not depend on the order in which captures end
C27_NoFontErrorUnasked ==
    \A s \in FontSessions :
        /\ ~throwOnFontError[s] => fontRender[s].code # "FONT_ERROR"
        /\ fontRender[s].code = "FONT_ERROR" => fontRender[s].heard

\* C22: a session's results are those it has when driven alone, whatever
\* another session does meanwhile: a render of a session with throwOnFontError
\* ends with a font error exactly when the engine emitted a font diagnostic
\* for that session's own page and did not fail, and a render of a session
\* without it never does.
C22_SessionsIndependent ==
    \A s \in FontSessions :
        fontRender[s].state \in {"returned", "failed"} =>
            /\ fontRender[s].code = "FONT_ERROR" =>
                    throwOnFontError[s] /\ fontRender[s].own
            /\ (throwOnFontError[s] /\ fontRender[s].own) =>
                    fontRender[s].code # "OK"

\* the same while the other session has not started a render
C22_IndependentWithoutOverlap ==
    \A s \in FontSessions, t \in FontSessions :
        (/\ s # t
         /\ fontRender[t].state \in {"unopened", "idle"}
         /\ fontRender[s].state \in {"returned", "failed"}) =>
            /\ fontRender[s].code = "FONT_ERROR" =>
                    throwOnFontError[s] /\ fontRender[s].own
            /\ (throwOnFontError[s] /\ fontRender[s].own) =>
                    fontRender[s].code # "OK"

\* pdf.js backend: a render that is over has called cleanup once on the page
\* object it obtained, and on none when getPage failed; a render in flight
\* holds at most the one page it obtained
C29_PdfjsPageCleanedUp ==
    \A s \in FontSessions :
        /\ fontRender[s].state = "loading" =>
                ~fontRender[s].page /\ fontRender[s].obtained = 0
        /\ fontRender[s].state = "rendering" =>
                /\ fontRender[s].page
                /\ fontRender[s].obtained = 1
                /\ fontRender[s].cleanups = 0
        /\ fontRender[s].state \in {"returned", "failed"} =>
                /\ ~fontRender[s].page
                /\ fontRender[s].obtained \in {0, 1}
                /\ fontRender[s].cleanups = fontRender[s].obtained

(* ------------------- PDFium backend: page objects ---------------------- *)

\* the sessions that render
PageSessions == {"s1", "s2"}

\* renders are started while fewer than this many page objects are held
MaxHeld == 2

PageUnchanged ==
    UNCHANGED <<sessionVars, convVars, selVars, wrapVars, detVars, fontVars, libVars>>

\* renderPageInternal(p) up to `await page.render(...)`: this.document.getPage
\* returns a page object or throws, and the catch block runs
PageRenderStart(s, p, ok) ==
    /\ pageObjects[s].state \in {"idle", "returned", "failed"}
    /\ pageObjects[s].held < MaxHeld
    /\ pageObjects' = [pageObjects EXCEPT ![s] =
            IF ok
            THEN [state |-> "rendering", page |-> p, obtained |-> 1,
                  cleanups |-> 0, held |-> @.held + 1]
            ELSE [state |-> "failed", page |-> p, obtained |-> 0,
                  cleanups |-> 0, held |-> @.held]]
    /\ PageUnchanged

\* page.render settles: sharp is awaited next, or the catch block runs
PageRendered(s, ok) ==
    /\ pageObjects[s].state = "rendering"
    /\ pageObjects' = [pageObjects EXCEPT ![s].state =
            IF ok THEN "encoding" ELSE "failed"]
    /\ PageUnchanged

\* toBuffer settles: the RenderedPage is returned, or the catch block runs
PageEncoded(s, ok) ==
    /\ pageObjects[s].state = "encoding"
    /\ pageObjects' = [pageObjects EXCEPT ![s].state =
            IF ok THEN "returned" ELSE "failed"]
    /\ PageUnchanged

PageNext ==
    \/ \E s \in PageSessions, p \in 1..MaxPages, ok \in BOOLEAN :
            PageRenderStart(s, p, ok)
    \/ \E s \in PageSessions, ok \in BOOLEAN : PageRendered(s, ok)
    \/ \E s \in PageSessions, ok \in BOOLEAN : PageEncoded(s, ok)

PageSpec == Init /\ [][PageNext]_vars

\* C29: when a render call has returned or thrown, cleanup was invoked once
\* for each page object the call obtained, and the session holds no page
\* object between two renders.
C29_PageReleased ==
    \A s \in PageSessions :
        pageObjects[s].state \in {"returned", "failed"} =>
            /\ pageObjects[s].cleanups = pageObjects[s].obtained
            /\ pageObjects[s].held = 0

(* --------------- PDFium backend: library initialisation ---------------- *)

\* the openPdf calls that may overlap
LibSessions == SessionIds

LibUnchanged ==
    UNCHANGED <<sessionVars, convVars, selVars, wrapVars, detVars, fontVars, pageVars>>

\* open up to the first await of getLibrary: the input is resolved and
\* getLibrary tests libraryInstance; when it is null PDFiumLibrary.init() is
\* called and awaited, else the cached instance is returned
LibGetLibrary(s) ==
    /\ opening[s].pc = "idle"
    /\ IF cachedLibrary = 0
       THEN /\ initCalls' = initCalls + 1
            /\ opening' = [opening EXCEPT ![s] = [pc |-> "init", library |-> initCalls + 1]]
       ELSE /\ opening' = [opening EXCEPT ![s] = [pc |-> "load", library |-> cachedLibrary]]
            /\ UNCHANGED initCalls
    /\ UNCHANGED cachedLibrary
    /\ LibUnchanged

\* the init() awaited by session s settles: its instance is assigned to
\* libraryInstance and returned, or its rejection leaves open
LibInitSettled(s, init) ==
    /\ opening[s].pc = "init"
    /\ IF init = "ready"
       THEN /\ cachedLibrary' = opening[s].library
            /\ opening' = [opening EXCEPT ![s].pc = "load"]
       ELSE /\ opening' = [opening EXCEPT ![s] = [pc |-> "failed", library |-> 0]]
            /\ UNCHANGED cachedLibrary
    /\ UNCHANGED initCalls
    /\ LibUnchanged

\* library.loadDocument settles: the session is constructed, or the catch
\* block throws wrapPdfiumError(error)
LibLoadDocument(s, ok) ==
    /\ opening[s].pc = "load"
    /\ opening' = [opening EXCEPT ![s].pc = IF ok THEN "opened" ELSE "failed"]
    /\ UNCHANGED <<initCalls, cachedLibrary>>
    /\ LibUnchanged

LibNext ==
    \/ \E s \in LibSessions : LibGetLibrary(s)
    \/ \E s \in LibSessions, init \in InitOutcomes : LibInitSettled(s, init)
    \/ \E s \in LibSessions, ok \in BOOLEAN : LibLoadDocument(s, ok)

LibSpec == Init /\ [][LibNext]_vars

\* C30: PDFiumLibrary.init() is called at most once, and all sessions that
\* were opened, or are about to load their document, use one and the same
\* library instance.
C30_InitOnce ==
    /\ initCalls <= 1
    /\ \A s \in LibSessions, t \in LibSessions :
            (/\ opening[s].pc \in {"load", "opened"}
             /\ opening[t].pc \in {"load", "opened"}) =>
                opening[s].library = opening[t].library

\* once an instance is cached, getLibrary returns it and calls init() no more
C30_CachedInstanceReused ==
    [][\A s \in LibSessions :
        (cachedLibrary # 0 /\ LibGetLibrary(s)) =>
            /\ initCalls' = initCalls
            /\ opening'[s].library = cachedLibrary]_vars

====
